---------------------------- MODULE Spec2Model ----------------------------
(***************************************************************************)
(* Model of setup_reels.py, the cross-platform provisioning script.        *)
(*                                                                         *)
(* The script is one thread of control that shells out to external         *)
(* commands.  A "machine" record m holds everything a function of the      *)
(* script can read or change: the file system, the package database, the   *)
(* process environment (os.environ) and the env dict threaded through the  *)
(* steps, the printed messages, the pending exception and the value        *)
(* returned by the last run().  Every Python function is an operator from  *)
(* a machine to the SET of machines it can end in, one per outcome of the  *)
(* child processes it spawns.  A pending exception makes every later       *)
(* operator the identity, which is how a raise propagates to __main__.     *)
(***************************************************************************)
EXTENDS Integers, Sequences, FiniteSets, TLC

VARIABLES
    pc,         \* position in main / __main__
    os_type,    \* main's os_type (the last value get_os returned)
    no_render,  \* args.no_render
    mach,       \* the machine record (see Machine below)
    exit_code,  \* process exit status, -1 while running
    calls,      \* harnesses only: number of calls made so far
    arg         \* harnesses only: the package the install step is called with

vars == <<pc, os_type, no_render, mach, exit_code, calls, arg>>

\* Largest exit status a child process is given in the model.
MaxExitCode == 2
\* Number of run() calls of the Step Runner harness.
MaxCalls == 2
\* Number of get_os() calls of the OS Detector harness.
MaxOsCalls == 3

ExitCodes == 0..MaxExitCode

------------------------------------------------------------------------------
(* Strings whose characters matter are tuples of one-character strings.     *)

UpperChars == <<"A","B","C","D","E","F","G","H","I","J","K","L","M",
                "N","O","P","Q","R","S","T","U","V","W","X","Y","Z">>
LowerChars == <<"a","b","c","d","e","f","g","h","i","j","k","l","m",
                "n","o","p","q","r","s","t","u","v","w","x","y","z">>

lower_char(c) ==
    IF \E i \in 1..Len(UpperChars) : UpperChars[i] = c
    THEN LowerChars[CHOOSE i \in 1..Len(UpperChars) : UpperChars[i] = c]
    ELSE c

\* str.lower()
str_lower(s) == [i \in 1..Len(s) |-> lower_char(s[i])]

str_darwin  == <<"d","a","r","w","i","n">>
str_linux   == <<"l","i","n","u","x">>
str_windows == <<"w","i","n","d","o","w","s">>

\* get_os comparing platform.system() as it is, without .lower().
get_os_case_sensitive(sys_name) ==
    IF sys_name = str_darwin THEN "macos"
    ELSE IF sys_name = str_linux THEN "linux"
    ELSE IF sys_name = str_windows THEN "windows"
    ELSE "RuntimeError"

\* get_os: the profile name, or "RuntimeError" for `raise RuntimeError(...)`.
get_os(sys_name) ==
    LET s == str_lower(sys_name)
    IN  IF s = str_darwin THEN "macos"
        ELSE IF s = str_linux THEN "linux"
        ELSE IF s = str_windows THEN "windows"
        ELSE "RuntimeError"

------------------------------------------------------------------------------
(* Exceptions and results.                                                  *)

NoExc == [type |-> "none", kind |-> "", code |-> 0]
Exc(t, k, c) == [type |-> t, kind |-> k, code |-> c]
Raised(m) == m.exc # NoExc
Raise(m, e) == [m EXCEPT !.exc = e]

\* run() returning None, and a CompletedProcess.
ResNone == [none |-> TRUE, returncode |-> 0, stdout |-> {}]
Completed(rc, text) == [none |-> FALSE, returncode |-> rc, stdout |-> text]

\* Printed lines are kept as a set of [level, msg]; msg is a tuple of strings.
Say(m, level, msg) == [m EXCEPT !.out = @ \cup {[level |-> level, msg |-> msg]}]
print_success(m, msg) == Say(m, "success", msg)
print_warning(m, msg) == Say(m, "warning", msg)
print_error(m, msg) == Say(m, "error", msg)
print_plain(m, msg) == Say(m, "plain", msg)

\* m2 unless an exception is pending in m (the rest of the function is skipped).
Unless(m, m2) == IF Raised(m) THEN m ELSE m2

------------------------------------------------------------------------------
(* The host: directories on search paths and what external commands do.     *)

None == "None"

\* First directory of `path` holding an executable `name`, or None.
RECURSIVE FirstDir(_, _, _)
FirstDir(fs, path, name) ==
    IF path = <<>> THEN None
    ELSE IF <<Head(path), name>> \in fs THEN Head(path)
    ELSE FirstDir(fs, Tail(path), name)

\* Executables a package puts on disk.
Bins(package) ==
    CASE package = "nodejs-lts" -> {"node", "npm", "corepack"}
      [] package = "nodejs"     -> {"node", "npm", "corepack"}
      [] package = "node"       -> {"node", "npm", "corepack"}
      [] package = "node@22"    -> {"node", "npm", "corepack"}
      [] package = "node@20"    -> {"node", "npm", "corepack"}
      [] OTHER                  -> {package}

\* Where Homebrew puts a formula's executables; versioned node is keg-only.
BrewDir(formula) ==
    CASE formula = "node@22" -> "opt/node@22/bin"
      [] formula = "node@20" -> "opt/node@20/bin"
      [] OTHER               -> "brewbin"

HomebrewScript == <<"/bin/bash -c $(curl -fsSL .../Homebrew/install/HEAD/install.sh)">>

\* Commands whose success may or may not leave the thing the script looks
\* for afterwards (PATH not refreshed, files not produced, ...).
MayBeInvisible(cmd) ==
    \/ cmd[1] \in {"powershell", "choco"}
    \/ cmd = HomebrewScript
    \/ cmd = <<"corepack", "enable">>
    \/ cmd = <<"npm", "install", "-g", "pnpm">>
    \/ (Len(cmd) >= 2 /\ cmd[1] = "git" /\ cmd[2] = "clone")
    \/ cmd = <<"pnpm", "render">>

\* The host after `cmd` exited 0; `vis` says whether its product is visible.
Effect(m, cmd, path, vis) ==
    CASE cmd[1] = "powershell" /\ vis ->
            [m EXCEPT !.fs = @ \cup {<<"sys", "choco">>}]
      [] cmd[1] = "choco" /\ vis ->
            [m EXCEPT !.fs = @ \cup {<<"sys", b>> : b \in Bins(cmd[3])}]
      [] cmd = HomebrewScript /\ vis ->
            [m EXCEPT !.fs = @ \cup {<<"brewbin", "brew">>}]
      [] Len(cmd) = 3 /\ cmd[1] = "brew" /\ cmd[2] = "install" ->
            [m EXCEPT !.pkgs = @ \cup {cmd[3]},
                      !.fs = @ \cup {<<BrewDir(cmd[3]), b>> : b \in Bins(cmd[3])}]
      [] Len(cmd) = 5 /\ cmd[1] = "sudo" /\ cmd[3] = "install" ->
            [m EXCEPT !.pkgs = @ \cup {cmd[5]},
                      !.fs = @ \cup {<<"sys", b>> : b \in Bins(cmd[5])}]
      [] cmd = <<"corepack", "enable">> /\ vis ->
            [m EXCEPT !.fs = @ \cup {<<FirstDir(m.fs, path, "corepack"), "pnpm">>}]
      [] cmd = <<"npm", "install", "-g", "pnpm">> /\ vis ->
            [m EXCEPT !.fs = @ \cup {<<FirstDir(m.fs, path, "npm"), "pnpm">>}]
      [] Len(cmd) >= 2 /\ cmd[1] = "git" /\ cmd[2] = "clone" ->
            [m EXCEPT !.files = @ \cup (IF vis THEN {"package.json"} ELSE {})]
      [] cmd = <<"pnpm", "render">> /\ vis ->
            [m EXCEPT !.files = @ \cup {"out/video.mp4"}]
      [] OTHER -> m

\* Package-database queries answer from the database.
IsQuery(cmd) ==
    \/ (Len(cmd) = 4 /\ cmd[1] = "brew" /\ cmd[2] = "list")
    \/ (Len(cmd) = 3 /\ cmd[1] = "dpkg")

Queried(cmd) == cmd[Len(cmd)]

PossibleCodes(m, cmd) ==
    IF IsQuery(cmd)
    THEN (IF Queried(cmd) \in m.pkgs THEN {0} ELSE {1})
    ELSE ExitCodes

\* What the child prints on stdout, as the set of package names it lists.
Stdout(m, cmd) ==
    IF IsQuery(cmd) /\ Queried(cmd) \in m.pkgs THEN {Queried(cmd)} ELSE {}

\* Outcomes of spawning cmd with search path `path`: the executable is not
\* found (never under a shell, where the shell itself is the child), the
\* user interrupts, or the child exits.
Spawn(m, cmd, path, shell) ==
    IF ~shell /\ FirstDir(m.fs, path, cmd[1]) = None
    THEN {[st |-> "notfound", rc |-> 0, vis |-> FALSE]}
    ELSE {[st |-> "intr", rc |-> 0, vis |-> FALSE]}
         \cup {[st |-> "exit", rc |-> rc, vis |-> FALSE] :
                    rc \in PossibleCodes(m, cmd) \ {0}}
         \cup {[st |-> "exit", rc |-> 0, vis |-> v] :
                    v \in (IF 0 \in PossibleCodes(m, cmd)
                           THEN (IF MayBeInvisible(cmd) THEN BOOLEAN ELSE {TRUE})
                           ELSE {})}

------------------------------------------------------------------------------
(* Step Runner.                                                             *)

\* AfterChild raising for a non-zero exit without the child's exit code.
AfterChild_code_lost(m, cmd, cwd, env, check, capture_output, path, o) ==
    LET entry == [cmd |-> cmd, cwd |-> cwd, check |-> check, st |-> o.st,
                  rc |-> o.rc, path |-> path, envmap |-> m.envPath]
        m1 == [m EXCEPT !.log = Append(@, entry)]
    IN  CASE o.st = "intr" ->
                Raise(m1, Exc("KeyboardInterrupt", "", 0))
          [] o.st = "notfound" ->
                IF check
                THEN Raise(m1, Exc("RuntimeError", "Command not found", 0))
                ELSE [m1 EXCEPT !.result = ResNone]
          [] o.st = "exit" ->
                LET m2 == IF o.rc = 0 THEN Effect(m1, cmd, path, o.vis) ELSE m1
                IN  IF check /\ o.rc # 0
                    THEN Raise(m2, Exc("RuntimeError", "Command failed", 1))
                    ELSE [m2 EXCEPT !.result =
                            Completed(o.rc, IF capture_output THEN Stdout(m, cmd) ELSE {})]

\* AfterChild reporting a missing executable as a failed command.
AfterChild_same_error(m, cmd, cwd, env, check, capture_output, path, o) ==
    LET entry == [cmd |-> cmd, cwd |-> cwd, check |-> check, st |-> o.st,
                  rc |-> o.rc, path |-> path, envmap |-> m.envPath]
        m1 == [m EXCEPT !.log = Append(@, entry)]
    IN  CASE o.st = "intr" ->
                Raise(m1, Exc("KeyboardInterrupt", "", 0))
          [] o.st = "notfound" ->
                IF check
                THEN Raise(m1, Exc("RuntimeError", "Command failed", 0))
                ELSE [m1 EXCEPT !.result = ResNone]
          [] o.st = "exit" ->
                LET m2 == IF o.rc = 0 THEN Effect(m1, cmd, path, o.vis) ELSE m1
                IN  IF check /\ o.rc # 0
                    THEN Raise(m2, Exc("RuntimeError", "Command failed", o.rc))
                    ELSE [m2 EXCEPT !.result =
                            Completed(o.rc, IF capture_output THEN Stdout(m, cmd) ELSE {})]

\* The state after the child of run() ended with outcome o.
AfterChild(m, cmd, cwd, env, check, capture_output, path, o) ==
    LET entry == [cmd |-> cmd, cwd |-> cwd, check |-> check, st |-> o.st,
                  rc |-> o.rc, path |-> path, envmap |-> m.envPath]
        m1 == [m EXCEPT !.log = Append(@, entry)]
    IN  CASE o.st = "intr" ->
                Raise(m1, Exc("KeyboardInterrupt", "", 0))
          [] o.st = "notfound" ->
                IF check
                THEN Raise(m1, Exc("RuntimeError", "Command not found", 0))
                ELSE [m1 EXCEPT !.result = ResNone]
          [] o.st = "exit" ->
                LET m2 == IF o.rc = 0 THEN Effect(m1, cmd, path, o.vis) ELSE m1
                IN  IF check /\ o.rc # 0
                    THEN Raise(m2, Exc("RuntimeError", "Command failed", o.rc))
                    ELSE [m2 EXCEPT !.result =
                            Completed(o.rc, IF capture_output THEN Stdout(m, cmd) ELSE {})]

\* run(cmd, cwd=, env=, check=, shell=, capture_output=); env is TRUE when
\* the env dict is passed and FALSE for env=None (the child inherits
\* os.environ).
run(m, cmd, cwd, env, check, shell, capture_output) ==
    IF Raised(m) THEN {m}
    ELSE LET path == IF env THEN m.envPath ELSE m.osPath
         IN  {AfterChild(m, cmd, cwd, env, check, capture_output, path, o) :
                    o \in Spawn(m, cmd, path, shell)}

\* shutil.which(name): searches os.environ["PATH"].
which(m, name) == FirstDir(m.fs, m.osPath, name)

\* History of the lookups made, kept for the properties below: what which()
\* answered, and what a search of env["PATH"] as it is now would answer.
Looked(m, name) ==
    [m EXCEPT !.lookups = Append(@, [name |-> name, found |-> which(m, name),
                                     viaEnv |-> FirstDir(m.fs, m.envPath, name)])]

\* is_admin(): ctypes' answer on Windows, False wherever ctypes.windll fails.
is_admin(m) == m.admin

------------------------------------------------------------------------------
(* Windows.                                                                 *)

setup_chocolatey_windows(m) ==
    IF Raised(m) THEN {m}
    ELSE LET m0 == Looked(m, "choco")
         IN  IF which(m, "choco") # None
             THEN {print_success(m0, <<"Chocolatey already installed">>)}
             ELSE LET m1 == print_warning(
                                print_warning(m0, <<"Chocolatey not found. Installing...">>),
                                <<"This requires Administrator privileges!">>)
                  IN  IF ~is_admin(m1)
                      THEN {Raise(print_error(m1,
                                <<"Please run this script as Administrator on Windows">>),
                              Exc("SystemExit", "", 1))}
                      ELSE {Unless(m2, print_success(m2, <<"Chocolatey installed">>)) :
                                m2 \in run(m1, <<"powershell", "-Command", "install_cmd">>,
                                           None, TRUE, TRUE, FALSE, FALSE)}

\* install_package_windows without its which() guard.
install_package_windows_unguarded(m, package) ==
    IF Raised(m) THEN {m}
    ELSE {Unless(m2, print_success(m2, <<package, " installed">>)) :
            m2 \in run(Looked(m, package), <<"choco", "install", package, "-y">>,
                       None, TRUE, TRUE, FALSE, FALSE)}

install_package_windows(m, package) ==
    IF Raised(m) THEN {m}
    ELSE LET m0 == Looked(m, package)
         IN  IF which(m, package) # None
             THEN {print_success(m0, <<package, " already installed">>)}
             ELSE {Unless(m2, print_success(m2, <<package, " installed">>)) :
                        m2 \in run(m0, <<"choco", "install", package, "-y">>,
                                   None, TRUE, TRUE, FALSE, FALSE)}

refresh_env_windows(m) ==
    run(m, <<"refreshenv">>, None, FALSE, FALSE, TRUE, FALSE)

\* run(["node", "-v"], env=env); run(["npm", "-v"], env=env)
node_npm_versions(m) ==
    UNION {run(m1, <<"npm", "-v">>, None, TRUE, TRUE, FALSE, FALSE) :
                m1 \in run(m, <<"node", "-v">>, None, TRUE, TRUE, FALSE, FALSE)}

setup_node_windows(m) ==
    IF Raised(m) THEN {m}
    ELSE LET m0 == Looked(m, "node")
         IN  IF which(m, "node") # None
             THEN node_npm_versions(print_success(m0, <<"Node.js already installed">>))
             ELSE UNION {node_npm_versions(m2) :
                            m2 \in UNION {refresh_env_windows(m1) :
                                        m1 \in install_package_windows(m0, "nodejs-lts")}}

------------------------------------------------------------------------------
(* macOS.                                                                   *)

\* The directory of the brew binary found, or None.  Both fixed locations
\* (/opt/homebrew/bin/brew, /usr/local/bin/brew) are the directory "brewbin".
detect_brew_bin(m) ==
    IF <<"brewbin", "brew">> \in m.fs THEN "brewbin" ELSE which(m, "brew")

\* The lookups detect_brew_bin makes.
detect_brew_bin_looked(m) ==
    IF <<"brewbin", "brew">> \in m.fs THEN m ELSE Looked(m, "brew")

setup_homebrew_macos(m) ==
    IF Raised(m) THEN {m}
    ELSE LET m0 == detect_brew_bin_looked(m)
         IN  IF detect_brew_bin(m) # None
             THEN {print_success(m0, <<"Homebrew found">>)}
             ELSE {IF Raised(m2) THEN m2
                   ELSE LET m3 == detect_brew_bin_looked(m2)
                            brew == detect_brew_bin(m2)
                        IN  IF brew = None
                            THEN Raise(m3, Exc("RuntimeError",
                                               "Homebrew installation failed", 0))
                            ELSE print_success(
                                    [m3 EXCEPT !.envPath = <<brew>> \o @],
                                    <<"Homebrew installed at ", brew>>) :
                        m2 \in run(print_warning(m0, <<"Homebrew not found. Installing...">>),
                                   HomebrewScript, None, TRUE, TRUE, TRUE, FALSE)}

brew_install(m, formula) ==
    IF Raised(m) THEN {m}
    ELSE UNION {
            IF Raised(m1) THEN {m1}
            ELSE IF ~m1.result.none /\ m1.result.returncode = 0
            THEN {print_success(m1, <<formula, " already installed">>)}
            ELSE {Unless(m2, print_success(m2, <<formula, " installed">>)) :
                        m2 \in run(m1, <<"brew", "install", formula>>,
                                   None, TRUE, TRUE, FALSE, FALSE)} :
            m1 \in run(m, <<"brew", "list", "--versions", formula>>,
                       None, TRUE, FALSE, FALSE, TRUE)}

\* The formula loop without its break.
RECURSIVE install_first_formula_no_break(_, _)
install_first_formula_no_break(m, formulas) ==
    IF Raised(m) \/ formulas = <<>> THEN {m}
    ELSE UNION {install_first_formula_no_break(m1, Tail(formulas)) :
                    m1 \in run(m, <<"brew", "install", Head(formulas)>>,
                               None, TRUE, FALSE, FALSE, FALSE)}

\* for formula in formulas: result = run(["brew", "install", formula],
\*     env=env, check=False); break on result and result.returncode == 0
RECURSIVE install_first_formula(_, _)
install_first_formula(m, formulas) ==
    IF Raised(m) \/ formulas = <<>> THEN {m}
    ELSE UNION {
            IF ~Raised(m1) /\ ~m1.result.none /\ m1.result.returncode = 0
            THEN {m1}
            ELSE install_first_formula(m1, Tail(formulas)) :
            m1 \in run(m, <<"brew", "install", Head(formulas)>>,
                       None, TRUE, FALSE, FALSE, FALSE)}

\* subprocess.check_output(cmd, env=env, text=True)
check_output(m, cmd) ==
    IF Raised(m) THEN {m}
    ELSE {LET m1 == [m EXCEPT !.log = Append(@,
                        [cmd |-> cmd, cwd |-> None, check |-> TRUE, st |-> o.st,
                         rc |-> o.rc, path |-> m.envPath, envmap |-> m.envPath])]
          IN  CASE o.st = "intr" -> Raise(m1, Exc("KeyboardInterrupt", "", 0))
                [] o.st = "notfound" -> Raise(m1, Exc("FileNotFoundError", "", 0))
                [] o.st = "exit" ->
                    IF o.rc # 0
                    THEN Raise(m1, Exc("CalledProcessError", "", o.rc))
                    ELSE [m1 EXCEPT !.result = Completed(0, {})] :
          o \in Spawn(m, cmd, m.envPath, FALSE)}

DirExists(m, d) == \E f \in m.fs : f[1] = d

\* for formula in ("node@22", "node@20"): prepend the first existing
\* <prefix>/opt/<formula>/bin to env["PATH"]
patch_node_path(m) ==
    IF Raised(m) THEN m
    ELSE IF DirExists(m, "opt/node@22/bin")
    THEN [m EXCEPT !.envPath = <<"opt/node@22/bin">> \o @]
    ELSE IF DirExists(m, "opt/node@20/bin")
    THEN [m EXCEPT !.envPath = <<"opt/node@20/bin">> \o @]
    ELSE m

setup_node_macos(m) ==
    IF Raised(m) THEN {m}
    ELSE LET m0 == Looked(m, "node")
         IN  IF which(m, "node") # None
             THEN node_npm_versions(print_success(m0, <<"Node.js already installed">>))
             ELSE UNION {node_npm_versions(patch_node_path(m2)) :
                            m2 \in UNION {check_output(m1, <<"brew", "--prefix">>) :
                                m1 \in install_first_formula(m0,
                                            <<"node@22", "node@20", "node">>)}}

------------------------------------------------------------------------------
(* Linux.                                                                   *)

update_apt(m) ==
    run(m, <<"sudo", "apt", "update">>, None, FALSE, TRUE, FALSE, FALSE)

install_package_linux(m, package) ==
    IF Raised(m) THEN {m}
    ELSE UNION {
            IF Raised(m1) THEN {m1}
            ELSE IF ~m1.result.none /\ m1.result.returncode = 0
                    /\ package \in m1.result.stdout
            THEN {print_success(m1, <<package, " already installed">>)}
            ELSE {Unless(m2, print_success(m2, <<package, " installed">>)) :
                        m2 \in run(m1, <<"sudo", "apt", "install", "-y", package>>,
                                   None, FALSE, TRUE, FALSE, FALSE)} :
            m1 \in run(m, <<"dpkg", "-l", package>>, None, FALSE, FALSE, FALSE, TRUE)}

setup_node_linux(m) ==
    IF Raised(m) THEN {m}
    ELSE LET m0 == Looked(m, "node")
         IN  IF which(m, "node") # None
             THEN node_npm_versions(print_success(m0, <<"Node.js already installed">>))
             ELSE UNION {node_npm_versions(m3) :
                    m3 \in UNION {install_package_linux(m2, "nodejs") :
                        m2 \in UNION {run(m1, <<"sudo", "bash", "/tmp/nodesource_setup.sh">>,
                                          None, TRUE, TRUE, FALSE, FALSE) :
                            m1 \in run(m0, <<"curl", "-fsSL", "setup_22.x", "-o",
                                             "/tmp/nodesource_setup.sh">>,
                                       None, TRUE, TRUE, FALSE, FALSE)}}}

------------------------------------------------------------------------------
(* All platforms.                                                           *)

\* pnpm -v run with check=False.
pnpm_version_unchecked(m) == run(m, <<"pnpm", "-v">>, None, TRUE, FALSE, FALSE, FALSE)

pnpm_version(m) == run(m, <<"pnpm", "-v">>, None, TRUE, TRUE, FALSE, FALSE)

\* if which("corepack"): run(corepack enable, check=False);
\*                       run(corepack prepare pnpm@latest --activate, check=False)
try_corepack(m) ==
    LET m0 == Looked(m, "corepack")
    IN  IF which(m, "corepack") # None
        THEN UNION {run(m1, <<"corepack", "prepare", "pnpm@latest", "--activate">>,
                        None, TRUE, FALSE, FALSE, FALSE) :
                        m1 \in run(m0, <<"corepack", "enable">>,
                                   None, TRUE, FALSE, FALSE, FALSE)}
        ELSE {m0}

setup_pnpm(m) ==
    IF Raised(m) THEN {m}
    ELSE LET m0 == Looked(m, "pnpm")
         IN  IF which(m, "pnpm") # None
             THEN pnpm_version(print_success(m0, <<"pnpm already installed">>))
             ELSE UNION {
                    IF Raised(m1) THEN {m1}
                    ELSE IF which(m1, "pnpm") # None
                    THEN pnpm_version(print_success(Looked(m1, "pnpm"),
                                                    <<"pnpm enabled via corepack">>))
                    ELSE {Unless(m3, print_success(m3, <<"pnpm installed">>)) :
                            m3 \in UNION {pnpm_version(m2) :
                                m2 \in run(Looked(m1, "pnpm"),
                                           <<"npm", "install", "-g", "pnpm">>,
                                           None, TRUE, TRUE, FALSE, FALSE)}} :
                    m1 \in try_corepack(m0)}

\* clone_or_validate_repo cloning whether or not the manifest is there.
clone_or_validate_repo_always(m) ==
    IF Raised(m) THEN {m}
    ELSE {IF Raised(m1) THEN m1
          ELSE IF "package.json" \notin m1.files
          THEN Raise(m1, Exc("RuntimeError",
                             "Clone succeeded but package.json not found", 0))
          ELSE print_success(m1, <<"Repository cloned successfully">>) :
          m1 \in run(m, <<"git", "clone", "repo_url", "project_dir">>,
                     None, TRUE, TRUE, FALSE, FALSE)}

clone_or_validate_repo(m) ==
    IF Raised(m) THEN {m}
    ELSE IF "package.json" \in m.files
    THEN {print_success(m, <<"Project already exists at: ", "project_dir">>)}
    ELSE {IF Raised(m1) THEN m1
          ELSE IF "package.json" \notin m1.files
          THEN Raise(m1, Exc("RuntimeError",
                             "Clone succeeded but package.json not found", 0))
          ELSE print_success(m1, <<"Repository cloned successfully">>) :
          m1 \in run(m, <<"git", "clone", "repo_url", "project_dir">>,
                     None, TRUE, TRUE, FALSE, FALSE)}

install_dependencies(m) ==
    IF Raised(m) THEN {m}
    ELSE {Unless(m1, print_success(m1, <<"Dependencies installed">>)) :
            m1 \in run(m, <<"pnpm", "install">>, "project_dir", TRUE, TRUE, FALSE, FALSE)}

\* render_video treating a missing output file as an error.
render_video_strict(m) ==
    IF Raised(m) THEN {m}
    ELSE {IF Raised(m1) THEN m1
          ELSE IF "out/video.mp4" \in m1.files
          THEN print_success(m1, <<"Video rendered successfully!">>)
          ELSE Raise(m1, Exc("RuntimeError", "Render output not found", 0)) :
          m1 \in run(m, <<"pnpm", "render">>, "project_dir", TRUE, TRUE, FALSE, FALSE)}

render_video(m) ==
    IF Raised(m) THEN {m}
    ELSE {IF Raised(m1) THEN m1
          ELSE IF "out/video.mp4" \in m1.files
          THEN LET m2 == print_plain(print_success(m1, <<"Video rendered successfully!">>),
                                     <<"Output: ", "project_dir/out/video.mp4">>)
               IN  IF get_os(m2.system) = "RuntimeError"
                   THEN Raise(m2, Exc("RuntimeError", "Unsupported OS", 0))
                   ELSE print_plain(m2, <<"Play: ", get_os(m2.system)>>)
          ELSE print_plain(
                  print_warning(m1,
                    <<"Render completed but output file not found at expected location">>),
                  <<"Expected: ", "project_dir/out/video.mp4">>) :
          m1 \in run(m, <<"pnpm", "render">>, "project_dir", TRUE, TRUE, FALSE, FALSE)}

print_next_steps(m) == print_plain(m, <<"NEXT STEPS">>)

------------------------------------------------------------------------------
(* Hosts the script is started on.                                          *)

SysDarwin  == <<"D","a","r","w","i","n">>
SysLinux   == <<"L","i","n","u","x">>
SysWindows == <<"W","i","n","d","o","w","s">>
SysJava    == <<"J","a","v","a">>

MainSystems == {SysDarwin, SysLinux, SysWindows, SysJava}

\* What may already be on the host: the package manager front end, the media
\* and VCS tools, Node.js with npm, corepack, pnpm.
Bundles == {"pm", "tools", "node", "corepack", "pnpm"}

BundleFiles(os, b) ==
    CASE b = "pm" ->
            (CASE os = "windows" -> {<<"sys", "choco">>}
               [] os = "macos"   -> {<<"brewbin", "brew">>}
               [] OTHER          -> {<<"sys", "sudo">>})
      [] b = "tools"    -> {<<"sys", t>> : t \in {"git", "curl", "ffmpeg", "mpv"}}
      [] b = "node"     -> {<<"sys", "node">>, <<"sys", "npm">>}
      [] b = "corepack" -> {<<"sys", "corepack">>}
      [] b = "pnpm"     -> {<<"sys", "pnpm">>}

BaseFiles(os) ==
    CASE os = "windows" -> {<<"sys", "powershell">>}
      [] os = "linux"   -> {<<"sys", "dpkg">>}
      [] OTHER          -> {}

HostFs(os, have) == BaseFiles(os) \cup UNION {BundleFiles(os, b) : b \in have}

HostPkgs(os, have) ==
    IF "tools" \in have /\ (os = "linux" \/ (os = "macos" /\ "pm" \in have))
    THEN {"git", "curl", "ffmpeg", "mpv"}
    ELSE {}

\* A versioned Node.js left unlinked in the Homebrew prefix by an earlier run.
StaleKeg == {<<"opt/node@20/bin", b>> : b \in Bins("node@20")}

\* The machine at process start: nothing run, nothing printed, no env dict yet.
Machine(sys_name, admin, osPath, fs, pkgs, files) ==
    [system |-> sys_name, admin |-> admin, osPath |-> osPath, envPath |-> <<>>,
     fs |-> fs, pkgs |-> pkgs, files |-> files, log |-> <<>>, lookups |-> <<>>,
     out |-> {}, exc |-> NoExc, result |-> ResNone]

HostMachines(sys_name) ==
    LET os == get_os(sys_name)
    IN  {Machine(sys_name, admin, osPath,
                 HostFs(os, have) \cup (IF keg THEN StaleKeg ELSE {}),
                 HostPkgs(os, have) \cup (IF keg THEN {"node@20"} ELSE {}), files) :
            admin \in (IF os = "windows" THEN BOOLEAN ELSE {FALSE}),
            keg \in (IF os = "macos" THEN BOOLEAN ELSE {FALSE}),
            osPath \in (IF os = "macos" THEN {<<"sys">>, <<"brewbin", "sys">>}
                        ELSE {<<"sys">>}),
            have \in (IF os = "RuntimeError" THEN {{}} ELSE SUBSET Bundles),
            files \in {{}, {"package.json"}}}

Init ==
    /\ pc = "main"
    /\ os_type = None
    /\ no_render \in BOOLEAN
    /\ \E sys_name \in MainSystems : mach \in HostMachines(sys_name)
    /\ exit_code = -1
    /\ calls = 0
    /\ arg = None

------------------------------------------------------------------------------
(* main(), one action per call it makes (directly or through setup_<os>).   *)

\* Take one of the outcomes in S; a pending exception leaves main.
Advance(S, next) ==
    /\ \E m2 \in S :
        /\ mach' = m2
        /\ pc' = IF Raised(m2) THEN "raised" ELSE next
    /\ UNCHANGED <<os_type, no_render, exit_code, calls, arg>>

\* args = parser.parse_args(); env = dict(os.environ); os_type = get_os()
Main ==
    /\ pc = "main"
    /\ LET os == get_os(mach.system)
           m1 == [mach EXCEPT !.envPath = mach.osPath]
       IN  IF os = "RuntimeError"
           THEN /\ mach' = Raise(m1, Exc("RuntimeError", "Unsupported OS", 0))
                /\ pc' = "raised"
                /\ os_type' = os_type
           ELSE /\ mach' = print_plain(m1, <<"OS: ", os>>)
                /\ os_type' = os
                /\ pc' = CASE os = "windows" -> "windows:chocolatey"
                           [] os = "macos"   -> "macos:homebrew"
                           [] os = "linux"   -> "linux:update"
    /\ UNCHANGED <<no_render, exit_code, calls, arg>>

WindowsChocolatey ==
    pc = "windows:chocolatey" /\ Advance(setup_chocolatey_windows(mach), "windows:git")
WindowsGit ==
    pc = "windows:git" /\ Advance(install_package_windows(mach, "git"), "windows:ffmpeg")
WindowsFfmpeg ==
    pc = "windows:ffmpeg" /\ Advance(install_package_windows(mach, "ffmpeg"), "windows:node")
WindowsNode ==
    pc = "windows:node" /\ Advance(setup_node_windows(mach), "pnpm")

MacosHomebrew ==
    pc = "macos:homebrew" /\ Advance(setup_homebrew_macos(mach), "macos:update")
MacosUpdate ==
    /\ pc = "macos:update"
    /\ Advance(run(mach, <<"brew", "update">>, None, TRUE, TRUE, FALSE, FALSE), "macos:git")
MacosGit ==
    pc = "macos:git" /\ Advance(brew_install(mach, "git"), "macos:ffmpeg")
MacosFfmpeg ==
    pc = "macos:ffmpeg" /\ Advance(brew_install(mach, "ffmpeg"), "macos:mpv")
MacosMpv ==
    pc = "macos:mpv" /\ Advance(brew_install(mach, "mpv"), "macos:node")
MacosNode ==
    pc = "macos:node" /\ Advance(setup_node_macos(mach), "pnpm")

LinuxUpdate ==
    pc = "linux:update" /\ Advance(update_apt(mach), "linux:git")
LinuxGit ==
    pc = "linux:git" /\ Advance(install_package_linux(mach, "git"), "linux:curl")
LinuxCurl ==
    pc = "linux:curl" /\ Advance(install_package_linux(mach, "curl"), "linux:ffmpeg")
LinuxFfmpeg ==
    pc = "linux:ffmpeg" /\ Advance(install_package_linux(mach, "ffmpeg"), "linux:mpv")
LinuxMpv ==
    pc = "linux:mpv" /\ Advance(install_package_linux(mach, "mpv"), "linux:node")
LinuxNode ==
    pc = "linux:node" /\ Advance(setup_node_linux(mach), "pnpm")

SetupPnpm ==
    pc = "pnpm" /\ Advance(setup_pnpm(mach), "clone")
CloneOrValidate ==
    pc = "clone" /\ Advance(clone_or_validate_repo(mach), "deps")
InstallDependencies ==
    pc = "deps" /\ Advance(install_dependencies(mach), "render")
Render ==
    /\ pc = "render"
    /\ IF ~no_render
       THEN Advance(render_video(mach), "finish")
       ELSE Advance({print_warning(mach, <<"Video rendering skipped (--no-render)">>)},
                    "finish")
\* print_next_steps(project_dir); print_success("SETUP COMPLETE!"); return 0
Finish ==
    /\ pc = "finish"
    /\ Advance({print_success(print_next_steps(mach), <<"SETUP COMPLETE!">>)}, "returned")

\* __main__ reporting an exception but leaving the exit status at 0.
ExitStatus_swallowed(m) ==
    CASE m.exc.type = "KeyboardInterrupt" -> 130
      [] m.exc.type = "SystemExit"        -> m.exc.code
      [] OTHER                            -> 0

\* Exit status the interpreter ends with for what left main().
ExitStatus(m) ==
    CASE m.exc.type = "none"              -> 0
      [] m.exc.type = "KeyboardInterrupt" -> 130
      [] m.exc.type = "SystemExit"        -> m.exc.code
      [] OTHER                            -> 1

\* if __name__ == "__main__": sys.exit(main()) and its except clauses.
Exit ==
    /\ pc \in {"returned", "raised"}
    /\ exit_code' = ExitStatus(mach)
    /\ mach' = CASE mach.exc.type = "KeyboardInterrupt" ->
                        print_plain(mach, <<"Setup interrupted by user">>)
                 [] mach.exc.type \in {"none", "SystemExit"} -> mach
                 [] OTHER -> print_error(mach, <<"Setup failed: ", mach.exc.kind>>)
    /\ pc' = "exited"
    /\ UNCHANGED <<os_type, no_render, calls, arg>>

Next ==
    \/ Main
    \/ WindowsChocolatey \/ WindowsGit \/ WindowsFfmpeg \/ WindowsNode
    \/ MacosHomebrew \/ MacosUpdate \/ MacosGit \/ MacosFfmpeg \/ MacosMpv \/ MacosNode
    \/ LinuxUpdate \/ LinuxGit \/ LinuxCurl \/ LinuxFfmpeg \/ LinuxMpv \/ LinuxNode
    \/ SetupPnpm \/ CloneOrValidate \/ InstallDependencies \/ Render \/ Finish
    \/ Exit

Spec == Init /\ [][Next]_vars

------------------------------------------------------------------------------
(* Step Runner harness: a caller that makes up to MaxCalls run() calls and   *)
(* goes on to the next one only while no exception is pending.              *)

HarnessCmds ==
    {<<"git", "clone", "repo_url", "project_dir">>, <<"node", "-v">>,
     <<"dpkg", "-l", "git">>, <<"refreshenv">>}

InitRun ==
    /\ pc = "harness:run"
    /\ os_type = None
    /\ no_render = FALSE
    /\ \E have \in {{}, {"tools"}, {"tools", "node"}} :
            mach = [Machine(SysLinux, FALSE, <<"sys">>, HostFs("linux", have),
                            HostPkgs("linux", have), {})
                    EXCEPT !.envPath = <<"sys">>]
    /\ exit_code = -1
    /\ calls = 0
    /\ arg = None

RunCall ==
    /\ pc = "harness:run"
    /\ calls < MaxCalls
    /\ ~Raised(mach)
    /\ \E cmd \in HarnessCmds, env \in BOOLEAN, check \in BOOLEAN,
          shell \in BOOLEAN, capture_output \in BOOLEAN :
            mach' \in run(mach, cmd, None, env, check, shell, capture_output)
    /\ calls' = calls + 1
    /\ UNCHANGED <<pc, os_type, no_render, exit_code, arg>>

NextRun == RunCall

SpecRun == InitRun /\ [][NextRun]_vars

------------------------------------------------------------------------------
(* Install-step harness: the same guarded install step called twice in a    *)
(* row on one host.                                                         *)

StepPackages(os) ==
    CASE os = "windows" -> {"git", "ffmpeg", "nodejs-lts"}
      [] os = "macos"   -> {"git", "ffmpeg", "mpv"}
      [] os = "linux"   -> {"git", "curl", "ffmpeg", "mpv", "nodejs"}

InitInstall ==
    /\ pc = "harness:install"
    /\ \E sys_name \in {SysDarwin, SysLinux, SysWindows} :
        /\ os_type = get_os(sys_name)
        /\ \E h \in HostMachines(sys_name) : mach = [h EXCEPT !.envPath = h.osPath]
        /\ arg \in StepPackages(get_os(sys_name))
    /\ no_render = FALSE
    /\ exit_code = -1
    /\ calls = 0

InstallCalled(S) ==
    /\ pc = "harness:install"
    /\ calls < 2
    /\ ~Raised(mach)
    /\ mach' \in S
    /\ calls' = calls + 1
    /\ UNCHANGED <<pc, os_type, no_render, exit_code, arg>>

InstallPackageWindowsCall ==
    os_type = "windows" /\ InstallCalled(install_package_windows(mach, arg))
BrewInstallCall ==
    os_type = "macos" /\ InstallCalled(brew_install(mach, arg))
InstallPackageLinuxCall ==
    os_type = "linux" /\ InstallCalled(install_package_linux(mach, arg))

NextInstall == InstallPackageWindowsCall \/ BrewInstallCall \/ InstallPackageLinuxCall

SpecInstall == InitInstall /\ [][NextInstall]_vars

------------------------------------------------------------------------------
(* OS Detector harness: get_os() called repeatedly in one process.          *)

upper_char(c) ==
    IF \E i \in 1..Len(LowerChars) : LowerChars[i] = c
    THEN UpperChars[CHOOSE i \in 1..Len(LowerChars) : LowerChars[i] = c]
    ELSE c

\* Every spelling of s in upper and lower case.
CaseVariants(s) ==
    {[i \in 1..Len(s) |-> IF i \in U THEN upper_char(s[i]) ELSE s[i]] :
        U \in SUBSET (1..Len(s))}

OtherSystems ==
    {SysJava, <<>>, <<"F","r","e","e","B","S","D">>, <<"S","u","n","O","S">>,
     <<"l","i","n","u","x","2">>, <<"l","i","n","u">>, <<"w","i","n","3","2">>,
     <<"m","a","c","o","s">>, <<"d","a","r","w","i","n"," ">>,
     <<"C","Y","G","W","I","N","_","N","T">>}

PlatformIds ==
    CaseVariants(str_darwin) \cup CaseVariants(str_linux)
        \cup CaseVariants(str_windows) \cup OtherSystems

InitOs ==
    /\ pc = "harness:get_os"
    /\ os_type = None
    /\ no_render = FALSE
    /\ \E sys_name \in PlatformIds :
            mach = Machine(sys_name, FALSE, <<"sys">>, {}, {}, {})
    /\ exit_code = -1
    /\ calls = 0
    /\ arg = None

GetOsCall ==
    /\ pc = "harness:get_os"
    /\ calls < MaxOsCalls
    /\ os_type' = get_os(mach.system)
    /\ calls' = calls + 1
    /\ UNCHANGED <<pc, no_render, mach, exit_code, arg>>

NextOs == GetOsCall

SpecOs == InitOs /\ [][NextOs]_vars

------------------------------------------------------------------------------
(* Properties.                                                              *)

log == mach.log
LastEntry == log[Len(log)]
Failed(e) == e.st = "exit" /\ e.rc # 0
Ok(e, cmd) == e.cmd = cmd /\ e.st = "exit" /\ e.rc = 0
\* A step that was not allowed to fail and did.
FatalEntry(e) == e.check /\ (e.st = "notfound" \/ Failed(e))

\* C1: when the child exits non-zero, run(check=False) raises nothing, hands
\* the exit code back and the caller goes on to its next call, while
\* run(check=True) raises the "Command failed" error carrying that exit code.
C1_ToleratedOrRaised ==
    /\ Len(log) = calls
    /\ \A i \in 1..Len(log) :
        Failed(log[i]) =>
            IF log[i].check
            THEN /\ i = Len(log)
                 /\ mach.exc = Exc("RuntimeError", "Command failed", log[i].rc)
            ELSE /\ (i = Len(log) =>
                        /\ ~Raised(mach)
                        /\ mach.result = Completed(log[i].rc, {}))
                 /\ (i < Len(log) \/ calls = MaxCalls \/ ENABLED RunCall)

\* A tolerated failure followed by the next call, which fails untolerated
\* with exit code 2.
C1_Witness ==
    /\ Len(log) = 2
    /\ Failed(log[1]) /\ ~log[1].check
    /\ Failed(log[2]) /\ log[2].check /\ log[2].rc = 2
    /\ mach.exc.code = 2

Fatal(m) == Raised(m) /\ m.exc.type # "KeyboardInterrupt"

C2_State ==
    /\ \A i \in 1..Len(log) : FatalEntry(log[i]) => i = Len(log) /\ Fatal(mach)
    /\ Raised(mach) => pc \in {"raised", "exited"}
    /\ pc = "exited" =>
        /\ Fatal(mach) => exit_code = 1
        /\ exit_code = 0 <=> ~Raised(mach)
        /\ mach.exc.type = "KeyboardInterrupt" <=> exit_code = 130

\* C2: a fatal error (a non-tolerated step failing or not found, missing
\* elevation, failed Homebrew bootstrap, corrupt clone) ends the run at once:
\* the failing command is the last one ever spawned, nothing is spawned while
\* an exception is pending, and the process exits 1; it exits 0 only when
\* nothing was raised and 130 exactly on a user interrupt.
C2_FatalAborts ==
    /\ []C2_State
    /\ [][Raised(mach) => mach'.log = mach.log /\ mach'.exc = mach.exc]_vars

\* A run that got through several steps and was ended by a step exiting 2.
C2_Witness ==
    /\ pc = "exited"
    /\ exit_code = 1
    /\ Len(log) > 3
    /\ mach.exc = Exc("RuntimeError", "Command failed", 2)

InstallCmds(package) ==
    {<<"choco", "install", package, "-y">>, <<"brew", "install", package>>,
     <<"sudo", "apt", "install", "-y", package>>}
ProbeCmds(package) ==
    {<<"brew", "list", "--versions", package>>, <<"dpkg", "-l", package>>}

Installs(m) == {i \in 1..Len(m.log) : m.log[i].cmd \in InstallCmds(arg)}
\* The guard's probes: which() lookups and package-database queries.
Probes(m) ==
    Cardinality({i \in 1..Len(m.log) : m.log[i].cmd \in ProbeCmds(arg)})
        + Cardinality({i \in 1..Len(m.lookups) : m.lookups[i].name = arg})

\* What the guard of the step looks at, read off the host.
Present(m) ==
    IF os_type = "windows" THEN FirstDir(m.fs, m.osPath, arg) # None
    ELSE arg \in m.pkgs

\* C3: when the first call of a guarded install step installed the package
\* (its install command exited 0) and the package is present to the guard
\* afterwards, the second call probes again and spawns no install command:
\* the install command runs once across both calls.
C3_SecondCallNoOp ==
    [][(/\ pc = "harness:install"
        /\ calls = 1
        /\ ~Raised(mach)
        /\ \E i \in Installs(mach) : Ok(log[i], log[i].cmd)
        /\ Present(mach))
       => /\ Installs(mach') = Installs(mach)
          /\ Cardinality(Installs(mach')) = 1
          /\ Probes(mach') = Probes(mach) + 1
          /\ mach'.fs = mach.fs /\ mach'.pkgs = mach.pkgs]_vars

C3_Witness ==
    /\ pc = "harness:install"
    /\ calls = 2
    /\ ~Raised(mach)
    /\ Cardinality(Installs(mach)) = 1
    /\ \E i \in Installs(mach) : Ok(log[i], log[i].cmd)
    /\ Probes(mach) = 2

GitClone == <<"git", "clone", "repo_url", "project_dir">>
Clones(m) == {i \in 1..Len(m.log) : m.log[i].cmd = GitClone}

\* C4: a call of clone_or_validate_repo that finds package.json in the
\* project directory spawns no command and returns normally; git clone is
\* spawned only by a call that finds package.json absent.
C4_CloneOnlyWhenAbsent ==
    [][/\ (pc = "clone" /\ "package.json" \in mach.files) =>
            /\ mach'.log = mach.log
            /\ ~Raised(mach')
            /\ pc' = "deps"
       /\ Clones(mach') # Clones(mach) =>
            /\ pc = "clone"
            /\ "package.json" \notin mach.files]_vars

C4_Witness ==
    /\ pc = "deps"
    /\ "package.json" \in mach.files
    /\ Clones(mach) = {}
    /\ Len(log) > 0

Node22 == <<"brew", "install", "node@22">>
Node20 == <<"brew", "install", "node@20">>
NodeGeneric == <<"brew", "install", "node">>
NodeInstalls == {Node22, Node20, NodeGeneric}

\* C5: on macOS, once the lookup of node on the search path fails, node@22 is
\* the first formula installed; node@20 is attempted only right after
\* node@22 exited non-zero and node only right after node@20 exited
\* non-zero; no formula is attempted after one of them exited 0.
C5_NodeFallbackOrder ==
    /\ \A i \in 1..Len(log) :
        /\ log[i].cmd = Node20 =>
                i > 1 /\ log[i-1].cmd = Node22 /\ Failed(log[i-1])
        /\ log[i].cmd = NodeGeneric =>
                i > 1 /\ log[i-1].cmd = Node20 /\ Failed(log[i-1])
        /\ (log[i].cmd \in NodeInstalls /\ log[i].st = "exit" /\ log[i].rc = 0) =>
                \A j \in (i+1)..Len(log) : log[j].cmd \notin NodeInstalls
        /\ log[i].cmd = Node22 =>
                \A j \in 1..(i-1) : log[j].cmd \notin NodeInstalls
    /\ (/\ os_type = "macos"
        /\ \E k \in 1..Len(mach.lookups) :
                mach.lookups[k].name = "node" /\ mach.lookups[k].found = None)
       => \E i \in 1..Len(log) : log[i].cmd = Node22

\* node@22 failed, node@20 succeeded, node was never attempted.
C5_Witness ==
    /\ os_type = "macos"
    /\ \E i \in 1..Len(log) :
        /\ i > 1
        /\ log[i-1].cmd = Node22 /\ Failed(log[i-1])
        /\ Ok(log[i], Node20)
    /\ \A i \in 1..Len(log) : log[i].cmd # NodeGeneric
    /\ pc = "pnpm"

PnpmRender == <<"pnpm", "render">>
RenderedWithoutArtifact ==
    /\ \E i \in 1..Len(log) : Ok(log[i], PnpmRender)
    /\ "out/video.mp4" \notin mach.files

MissingOutputWarning ==
    [level |-> "warning",
     msg |-> <<"Render completed but output file not found at expected location">>]
ExpectedPathLine ==
    [level |-> "plain", msg |-> <<"Expected: ", "project_dir/out/video.mp4">>]
NextStepsLine == [level |-> "plain", msg |-> <<"NEXT STEPS">>]
SetupCompleteLine == [level |-> "success", msg |-> <<"SETUP COMPLETE!">>]

\* C6: when pnpm render exited 0 and out/video.mp4 is absent, nothing is
\* raised, the warning and the expected path are printed, the remaining
\* steps run and the process exits 0.
C6_MissingArtifactNotFatal ==
    RenderedWithoutArtifact =>
        /\ ~Raised(mach)
        /\ MissingOutputWarning \in mach.out
        /\ ExpectedPathLine \in mach.out
        /\ pc \in {"finish", "returned", "exited"}
        /\ pc \in {"returned", "exited"} =>
                NextStepsLine \in mach.out /\ SetupCompleteLine \in mach.out
        /\ pc = "exited" => exit_code = 0

C6_Witness ==
    /\ RenderedWithoutArtifact
    /\ pc = "exited"
    /\ exit_code = 0

NotFoundError == Exc("RuntimeError", "Command not found", 0)

\* C7 as stated: a missing executable raises the executable-not-found error
\* whatever the tolerate-failure flag of the step.
C7_AlwaysRaisesNotFound ==
    (Len(log) > 0 /\ LastEntry.st = "notfound") => mach.exc = NotFoundError

\* C7 amended: for a step spawned without a shell whose executable is
\* missing, run(check=True) raises "Command not found", an error no non-zero
\* exit produces, and run(check=False) raises nothing and returns None, which
\* no completed child produces.
C7_NotFoundByFlag ==
    Len(log) > 0 =>
        /\ LastEntry.st = "notfound" =>
            IF LastEntry.check
            THEN mach.exc = NotFoundError
            ELSE ~Raised(mach) /\ mach.result = ResNone
        /\ LastEntry.st = "exit" =>
            /\ mach.exc # NotFoundError
            /\ ~Raised(mach) => ~mach.result.none

C7_Witness ==
    /\ Len(log) = 2
    /\ log[1].st = "notfound" /\ ~log[1].check
    /\ log[2].st = "notfound" /\ log[2].check
    /\ mach.exc = NotFoundError

\* C8: every child is spawned with the search path of the env map as
\* mutated so far, and every search-path lookup of a guard answers as a
\* search of that map's path does.
C8_MutatedMapUsedEverywhere ==
    /\ \A i \in 1..Len(log) : log[i].path = log[i].envmap
    /\ \A k \in 1..Len(mach.lookups) :
            mach.lookups[k].found = mach.lookups[k].viaEnv

\* What get_os is to return, spelled out per identifier.
ExpectedOs(sys_name) ==
    CASE sys_name \in CaseVariants(str_darwin)  -> "macos"
      [] sys_name \in CaseVariants(str_linux)   -> "linux"
      [] sys_name \in CaseVariants(str_windows) -> "windows"
      [] OTHER                                  -> "RuntimeError"

\* C9: get_os returns macos for darwin, linux for linux and windows for
\* windows in any letter case, raises for every other identifier, gives the
\* same answer on every call and leaves the rest of the state alone.
C9_GetOsTotalAndStable ==
    calls > 0 =>
        /\ os_type = ExpectedOs(mach.system)
        /\ os_type \in {"macos", "linux", "windows", "RuntimeError"}
        /\ mach = Machine(mach.system, FALSE, <<"sys">>, {}, {}, {})

C9_Witness ==
    /\ calls = MaxOsCalls
    /\ mach.system = <<"D","a","r","W","I","N">>
    /\ os_type = "macos"

\* Positions after k in the log where cmd exited 0.
OkAfter(cmd, k) == {i \in (k+1)..Len(log) : Ok(log[i], cmd)}

\* C10: a run that exits 0 has, in this order, node -v, npm -v and pnpm -v
\* exiting 0, package.json in the project directory, pnpm install exiting 0
\* and, unless --no-render, pnpm render exiting 0.
C10_SuccessPostcondition ==
    (pc = "exited" /\ exit_code = 0) =>
        /\ "package.json" \in mach.files
        /\ \E a \in OkAfter(<<"node", "-v">>, 0) :
           \E b \in OkAfter(<<"npm", "-v">>, a) :
           \E c \in OkAfter(<<"pnpm", "-v">>, b) :
           \E d \in OkAfter(<<"pnpm", "install">>, c) :
            /\ \A g \in Clones(mach) : c < g /\ g < d /\ Ok(log[g], GitClone)
            /\ ~no_render => OkAfter(PnpmRender, d) # {}

\* A macOS run where all three node formulas failed and corepack was not
\* found, still ending in success.
C10_Witness ==
    /\ pc = "exited"
    /\ exit_code = 0
    /\ os_type = "macos"
    /\ ~no_render
    /\ \E i \in 1..Len(log) : log[i].cmd = NodeGeneric /\ Failed(log[i])
    /\ \E k \in 1..Len(mach.lookups) :
            mach.lookups[k].name = "corepack" /\ mach.lookups[k].found = None

==============================================================================
